---------------------------- MODULE Spec2Model ----------------------------
(***************************************************************************)
(* Model of the afwm interaction core: the event loop WM::run of           *)
(* src/src/wm.rs with its mouse-mode state machine, keybind dispatch and   *)
(* shutdown flag, and the Screen of src/src/screen.rs.                     *)
(*                                                                         *)
(* The workspace container (crate::desktop), the transport (crate::x) and  *)
(* the keybind table (crate::config) are not part of the sources at hand;  *)
(* they are modelled from their documented contract and marked as such in  *)
(* the model map.                                                          *)
(***************************************************************************)
EXTENDS Integers, Sequences, FiniteSets, TLC

(***************************************************************************)
(* Bounds of the model.                                                    *)
(***************************************************************************)
\* number of distinct window identifiers the transport reports
MaxWindows == 2
\* number of workspaces of the container
NumWorkspaces == 2

Windows == 1..MaxWindows
WorkspaceIds == 1..NumWorkspaces

\* pointer coordinates the transport may answer to query_pointer
Pointers == {<<10, 10>>, <<13, 15>>}

MouseModes == {"Ground", "Resize", "Move"}
MouseButtons == {"LeftClick", "RightClick"}

\* modifier masks and key symbols carried by key events
KeyMasks == {"Mod", "ModShift"}
KeySyms == {"q", "n"}

VARIABLES
    mouse_mode,     \* WM.mouse_mode
    last_mouse_x,   \* WM.last_mouse_x
    last_mouse_y,   \* WM.last_mouse_y
    running,        \* WM.running
    screen,         \* WM.screen
    desktop,        \* WM.desktop
    grabbed,        \* transport: the pointer grab is held by this client
    pc,             \* "boot", "register_failed", "registered", then the
                    \* position of WM::run: "run", "exited" or "panicked"
    register_idx,     \* the screen index WM::register is called with
    handled,        \* the event handled by the last loop iteration
    cmds,           \* commands issued while handling that event, in order
    pre,            \* the WM state at the moment that event was fetched
    drag            \* the drag in progress: the displacement of the last
                    \* pointer position since its ButtonPress that the deltas
                    \* passed to do_move / do_resize since have not covered

vars == <<mouse_mode, last_mouse_x, last_mouse_y, running, screen, desktop,
          grabbed, pc, register_idx, handled, cmds, pre, drag>>

(***************************************************************************)
(* Screen (src/src/screen.rs)                                              *)
(***************************************************************************)
ScreenNew(screen_idx, root_id) ==
    [x |-> 0, y |-> 0, width |-> 0, height |-> 0,
     idx |-> screen_idx, root_id |-> root_id]

\* mutant: the height is not stored
ScreenSetKeepsHeight(s, x, y, width, height) ==
    [s EXCEPT !.x = x, !.y = y, !.width = width]

ScreenSet(s, x, y, width, height) ==
    [s EXCEPT !.x = x, !.y = y, !.width = width, !.height = height]

ScreenId(s) == s.root_id

(***************************************************************************)
(* Workspace container (crate::desktop), from its contract.  A workspace   *)
(* is its list of windows and an optional focused window, an option being  *)
(* a sequence of length 0 or 1.                                            *)
(***************************************************************************)
None == <<>>
Some(v) == <<v>>

Range(s) == {s[i] : i \in 1..Len(s)}

RemoveAt(s, idx) == [i \in 1..(Len(s) - 1) |-> IF i < idx THEN s[i] ELSE s[i + 1]]

EmptyWorkspace == [windows |-> <<>>, focused |-> None]

DesktopDefault == [current |-> 1, ws |-> [i \in WorkspaceIds |-> EmptyWorkspace]]

Current(d) == d.ws[d.current]

IsActive(d, i) == i = d.current

IsEmpty(w) == w.windows = <<>>

Focused(w) == w.focused

IsFocused(w, win) == w.focused = Some(win)

IndexOf(s, win) ==
    IF win \in Range(s) THEN CHOOSE i \in 1..Len(s) : s[i] = win /\ \A j \in 1..(i - 1) : s[j] # win
    ELSE 0

\* contains_mut: the first (workspace, index) holding win, if any
ContainsMut(d, win) ==
    LET holders == {i \in WorkspaceIds : win \in Range(d.ws[i].windows)}
    IN IF holders = {} THEN None
       ELSE LET i == CHOOSE h \in holders : \A k \in holders : h <= k
            IN Some([ws |-> i, idx |-> IndexOf(d.ws[i].windows, win)])

WindowAdd(w, win) == [windows |-> Append(w.windows, win), focused |-> Some(win)]

WindowDel(w, idx, win) ==
    LET rest == RemoveAt(w.windows, idx)
    IN [windows |-> rest,
        focused |-> IF w.focused = Some(win)
                    THEN (IF rest = <<>> THEN None ELSE Some(rest[1]))
                    ELSE w.focused]

WindowFocus(w, win) ==
    IF win \in Range(w.windows) THEN [w EXCEPT !.focused = Some(win)] ELSE w

WorkspaceNext(d) == [d EXCEPT !.current = (d.current % NumWorkspaces) + 1]

(***************************************************************************)
(* Commands issued to the transport and the container, as logged in cmds.  *)
(***************************************************************************)
\* win is 0 for a command without a window, entry is the keybind table index
\* of an invoked action and 0 otherwise
Cmd(op, win, dx, dy) == [op |-> op, win |-> win, dx |-> dx, dy |-> dy, entry |-> 0]

KeyfnCmd(i) == [op |-> "keyfn", win |-> 0, dx |-> 0, dy |-> 0, entry |-> i]

\* win is 0 for an event without a window; px, py are the pointer position
\* the transport answers if the handler queries it
Event(kind, win, button, mask, key, px, py) ==
    [kind |-> kind, win |-> win, button |-> button, mask |-> mask, key |-> key,
     px |-> px, py |-> py]

NoEvent == Event("none", 0, "none", "none", "none", 0, 0)

Snapshot ==
    [mouse_mode |-> mouse_mode, last_mouse_x |-> last_mouse_x,
     last_mouse_y |-> last_mouse_y, running |-> running, screen |-> screen,
     desktop |-> desktop, grabbed |-> grabbed]

(***************************************************************************)
(* Before WM::register there is no WM value: the fields hold the values of *)
(* an idle machine that is not running, and nothing has been requested of  *)
(* the transport.                                                          *)
(***************************************************************************)
\* the screen indices a configuration may name
ScreenIdxs == {-1, 0, 1}

\* the root windows of the display, in the order of its setup
Roots == <<"root">>

NoDrag == [lost_x |-> 0, lost_y |-> 0]

Init ==
    /\ register_idx \in ScreenIdxs
    /\ mouse_mode = "Ground"
    /\ last_mouse_x = 0
    /\ last_mouse_y = 0
    /\ running = FALSE
    /\ screen = ScreenNew(0, "none")
    /\ desktop = DesktopDefault
    /\ grabbed = FALSE
    /\ pc = "boot"
    /\ handled = NoEvent
    /\ cmds = <<>>
    /\ pre = [mouse_mode |-> "Ground", last_mouse_x |-> 0, last_mouse_y |-> 0,
              running |-> FALSE, screen |-> ScreenNew(0, "none"),
              desktop |-> DesktopDefault, grabbed |-> FALSE]
    /\ drag = NoDrag

\* mutant: the loop condition does not read the running flag
FetchingAlways == pc = "run"

\* the loop is about to fetch and handle an event
Fetching == pc = "run" /\ running

(***************************************************************************)
(* WM::run, one action per arm of the event match.  Every action is one    *)
(* whole loop iteration: fetch, handle, back to the loop condition.        *)
(***************************************************************************)
RECURSIVE SumDeltas(_)
SumDeltas(cs) ==
    IF cs = <<>> THEN [dx |-> 0, dy |-> 0]
    ELSE LET rest == SumDeltas(Tail(cs))
         IN IF Head(cs).op \in {"do_move", "do_resize"}
            THEN [dx |-> rest.dx + Head(cs).dx, dy |-> rest.dy + Head(cs).dy]
            ELSE rest

\* the drag after event ev was handled with the commands cs: a press that
\* grabbed opens a drag at the position it stored, a release closes it, and
\* within a drag every change of the last pointer position is set against
\* the deltas passed to do_move / do_resize
DragAfter(ev, cs) ==
    IF (ev.kind = "ButtonPress" /\ cs # <<>>) \/ ev.kind = "ButtonRelease" THEN NoDrag
    ELSE IF mouse_mode = "Ground" THEN drag
    ELSE [lost_x |-> drag.lost_x + (last_mouse_x' - last_mouse_x) - SumDeltas(cs).dx,
          lost_y |-> drag.lost_y + (last_mouse_y' - last_mouse_y) - SumDeltas(cs).dy]

Record(ev) ==
    /\ handled' = ev
    /\ pre' = Snapshot
    /\ register_idx' = register_idx
    /\ drag' = DragAfter(ev, cmds')

\* mutant: a tracked window is focused without the is_active check
MapRequestAnyWorkspace(window_id) ==
    /\ Fetching
    /\ LET found == ContainsMut(desktop, window_id)
       IN IF found # None
          THEN /\ desktop' = [desktop EXCEPT !.ws[found[1].ws] = WindowFocus(@, window_id)]
               /\ cmds' = <<Cmd("window_focus", window_id, 0, 0)>>
          ELSE /\ desktop' = [desktop EXCEPT !.ws[desktop.current] = WindowAdd(@, window_id)]
               /\ cmds' = <<Cmd("window_add", window_id, 0, 0)>>
    /\ UNCHANGED <<mouse_mode, last_mouse_x, last_mouse_y, running, screen, grabbed, pc>>
    /\ Record(Event("MapRequest", window_id, "none", "none", "none", 0, 0))

\* mutant: only the current workspace is searched for the window
MapRequestCurrentOnly(window_id) ==
    /\ Fetching
    /\ IF window_id \in Range(Current(desktop).windows)
       THEN /\ desktop' = [desktop EXCEPT !.ws[desktop.current] = WindowFocus(@, window_id)]
            /\ cmds' = <<Cmd("window_focus", window_id, 0, 0)>>
       ELSE /\ desktop' = [desktop EXCEPT !.ws[desktop.current] = WindowAdd(@, window_id)]
            /\ cmds' = <<Cmd("window_add", window_id, 0, 0)>>
    /\ UNCHANGED <<mouse_mode, last_mouse_x, last_mouse_y, running, screen, grabbed, pc>>
    /\ Record(Event("MapRequest", window_id, "none", "none", "none", 0, 0))

MapRequest(window_id) ==
    /\ Fetching
    /\ LET found == ContainsMut(desktop, window_id)
       IN IF found # None
          THEN IF IsActive(desktop, found[1].ws)
               THEN /\ desktop' = [desktop EXCEPT !.ws[found[1].ws] = WindowFocus(@, window_id)]
                    /\ cmds' = <<Cmd("window_focus", window_id, 0, 0)>>
               ELSE /\ desktop' = desktop
                    /\ cmds' = <<>>
          ELSE /\ desktop' = [desktop EXCEPT !.ws[desktop.current] = WindowAdd(@, window_id)]
               /\ cmds' = <<Cmd("window_add", window_id, 0, 0)>>
    /\ UNCHANGED <<mouse_mode, last_mouse_x, last_mouse_y, running, screen, grabbed, pc>>
    /\ Record(Event("MapRequest", window_id, "none", "none", "none", 0, 0))

\* mutant: the window is removed only from the active workspace
RemoveWindowActiveOnly(window_id) ==
    LET found == ContainsMut(desktop, window_id)
    IN IF found # None /\ IsActive(desktop, found[1].ws)
       THEN /\ desktop' = [desktop EXCEPT
                              !.ws[found[1].ws] = WindowDel(@, found[1].idx, window_id)]
            /\ cmds' = <<Cmd("window_del", window_id, 0, 0)>>
       ELSE /\ desktop' = desktop
            /\ cmds' = <<>>

\* the body shared by the UnmapNotify and DestroyNotify arms
RemoveWindow(window_id) ==
    LET found == ContainsMut(desktop, window_id)
    IN IF found # None
       THEN /\ desktop' = [desktop EXCEPT
                              !.ws[found[1].ws] = WindowDel(@, found[1].idx, window_id)]
            /\ cmds' = <<Cmd("window_del", window_id, 0, 0)>>
       ELSE /\ desktop' = desktop
            /\ cmds' = <<>>

\* mutant: removing the focused window of the current workspace ends the drag
UnmapNotifyEndsDrag(window_id) ==
    /\ Fetching
    /\ RemoveWindow(window_id)
    /\ IF IsFocused(Current(desktop), window_id)
       THEN mouse_mode' = "Ground" /\ grabbed' = FALSE
       ELSE UNCHANGED <<mouse_mode, grabbed>>
    /\ UNCHANGED <<last_mouse_x, last_mouse_y, running, screen, pc>>
    /\ Record(Event("UnmapNotify", window_id, "none", "none", "none", 0, 0))

UnmapNotify(window_id) ==
    /\ Fetching
    /\ RemoveWindow(window_id)
    /\ UNCHANGED <<mouse_mode, last_mouse_x, last_mouse_y, running, screen, grabbed, pc>>
    /\ Record(Event("UnmapNotify", window_id, "none", "none", "none", 0, 0))

DestroyNotify(window_id) ==
    /\ Fetching
    /\ RemoveWindow(window_id)
    /\ UNCHANGED <<mouse_mode, last_mouse_x, last_mouse_y, running, screen, grabbed, pc>>
    /\ Record(Event("DestroyNotify", window_id, "none", "none", "none", 0, 0))

\* mutant: the entered window is also focused in the current workspace
EnterNotifyFocusesWorkspace(window_id) ==
    /\ Fetching
    /\ desktop' = [desktop EXCEPT !.ws[desktop.current] = WindowFocus(@, window_id)]
    /\ cmds' = <<Cmd("set_input_focus", window_id, 0, 0)>>
    /\ UNCHANGED <<mouse_mode, last_mouse_x, last_mouse_y, running, screen, grabbed, pc>>
    /\ Record(Event("EnterNotify", window_id, "none", "none", "none", 0, 0))

EnterNotify(window_id) ==
    /\ Fetching
    /\ cmds' = <<Cmd("set_input_focus", window_id, 0, 0)>>
    /\ UNCHANGED <<mouse_mode, last_mouse_x, last_mouse_y, running, screen, desktop,
                   grabbed, pc>>
    /\ Record(Event("EnterNotify", window_id, "none", "none", "none", 0, 0))

\* mutant: the subtraction with its operands exchanged
DeltaReversed(cur, last) == last - cur

\* dx, dy of the MotionNotify arm; the coordinates are the transport's
\* 16-bit pointer coordinates, so the i32 subtraction cannot overflow
Delta(cur, last) == cur - last

\* mutant: the Ground arm of the mode match moves the window instead of
\* panicking
MotionCmdGroundAsMove(mode, w, dx, dy) ==
    IF Focused(w) = None THEN None
    ELSE IF mode = "Resize" THEN Some(Cmd("do_resize", Focused(w)[1], dx, dy))
    ELSE Some(Cmd("do_move", Focused(w)[1], dx, dy))

\* mutant: the Resize arm of the mode match is missing and falls to the panic
MotionCmdResizePanics(mode, w, dx, dy) ==
    IF mode # "Move" \/ Focused(w) = None THEN None
    ELSE Some(Cmd("do_move", Focused(w)[1], dx, dy))

\* the command the mode match of the MotionNotify arm issues, None when the
\* arm panics (mode Ground, or no focused window to unwrap)
MotionCmd(mode, w, dx, dy) ==
    IF mode = "Ground" \/ Focused(w) = None THEN None
    ELSE IF mode = "Move" THEN Some(Cmd("do_move", Focused(w)[1], dx, dy))
    ELSE Some(Cmd("do_resize", Focused(w)[1], dx, dy))

\* mutant: the pointer is queried and stored before the empty-workspace check
MotionNotifyQueryFirst(px, py) ==
    /\ Fetching
    /\ last_mouse_x' = px
    /\ last_mouse_y' = py
    /\ IF IsEmpty(Current(desktop))
       THEN /\ cmds' = <<>>
            /\ pc' = pc
       ELSE LET cmd == MotionCmd(mouse_mode, Current(desktop),
                                 Delta(px, last_mouse_x), Delta(py, last_mouse_y))
            IN /\ cmds' = cmd
               /\ pc' = IF cmd = None THEN "panicked" ELSE pc
    /\ UNCHANGED <<mouse_mode, running, screen, desktop, grabbed>>
    /\ Record(Event("MotionNotify", 0, "none", "none", "none", px, py))

\* mutant: the last pointer position is not updated after the delta
MotionNotifyKeepsLast(px, py) ==
    /\ Fetching
    /\ IF IsEmpty(Current(desktop))
       THEN /\ cmds' = <<>>
            /\ pc' = pc
       ELSE LET cmd == MotionCmd(mouse_mode, Current(desktop),
                                 Delta(px, last_mouse_x), Delta(py, last_mouse_y))
            IN /\ cmds' = cmd
               /\ pc' = IF cmd = None THEN "panicked" ELSE pc
    /\ UNCHANGED <<last_mouse_x, last_mouse_y, mouse_mode, running, screen, desktop, grabbed>>
    /\ Record(Event("MotionNotify", 0, "none", "none", "none", px, py))

MotionNotify(px, py) ==
    /\ Fetching
    /\ IF IsEmpty(Current(desktop))
       THEN /\ cmds' = <<>>
            /\ UNCHANGED <<last_mouse_x, last_mouse_y, pc>>
       ELSE LET dx == Delta(px, last_mouse_x)
                dy == Delta(py, last_mouse_y)
                cmd == MotionCmd(mouse_mode, Current(desktop), dx, dy)
            IN /\ last_mouse_x' = px
               /\ last_mouse_y' = py
               /\ cmds' = cmd
               /\ pc' = IF cmd = None THEN "panicked" ELSE pc
    /\ UNCHANGED <<mouse_mode, running, screen, desktop, grabbed>>
    /\ Record(Event("MotionNotify", 0, "none", "none", "none", px, py))

(***************************************************************************)
(* Keybind table (crate::config) and its actions.  Entry 3 repeats the     *)
(* (mask, key) of entry 1 with another action, so that the scan order is   *)
(* observable.  An action runs on the part of the WM it can reach.         *)
(***************************************************************************)
KEYBINDS ==
    << [mask |-> "Mod", key |-> "q", action |-> "kill"],
       [mask |-> "Mod", key |-> "n", action |-> "workspace_next"],
       [mask |-> "Mod", key |-> "q", action |-> "workspace_next"] >>

\* WM::kill
Kill(st) == [st EXCEPT !.running = FALSE]

Keyfn(action, st) ==
    IF action = "kill" THEN Kill(st)
    ELSE [st EXCEPT !.desktop = WorkspaceNext(@)]

\* mutant: the window is refocused without the is_focused check
KeyStepAlwaysFocus(st, i, window_id) ==
    Keyfn(KEYBINDS[i].action,
          [st EXCEPT !.desktop.ws[st.desktop.current] = WindowFocus(@, window_id),
                     !.cmds = <<Cmd("window_focus", window_id, 0, 0), KeyfnCmd(i)>>])

\* the body of the KeyPress arm's loop for a matching entry i
KeyStep(st, i, window_id) ==
    LET refocused ==
            IF ~IsFocused(Current(st.desktop), window_id)
            THEN [st EXCEPT !.desktop.ws[st.desktop.current] = WindowFocus(@, window_id),
                            !.cmds = Append(@, Cmd("window_focus", window_id, 0, 0))]
            ELSE st
    IN Keyfn(KEYBINDS[i].action, [refocused EXCEPT !.cmds = Append(@, KeyfnCmd(i))])

\* the KeyPress arm's loop over KEYBINDS from entry i on
RECURSIVE ScanKeybinds(_, _, _, _, _)
ScanKeybinds(i, st, mask, key, window_id) ==
    IF i > Len(KEYBINDS) THEN st
    ELSE IF KEYBINDS[i].mask = mask /\ KEYBINDS[i].key = key
         THEN KeyStep(st, i, window_id)
         ELSE ScanKeybinds(i + 1, st, mask, key, window_id)

\* mutant: the loop without its break, every matching entry is run
RECURSIVE ScanKeybindsNoBreak(_, _, _, _, _)
ScanKeybindsNoBreak(i, st, mask, key, window_id) ==
    IF i > Len(KEYBINDS) THEN st
    ELSE IF KEYBINDS[i].mask = mask /\ KEYBINDS[i].key = key
         THEN ScanKeybindsNoBreak(i + 1, KeyStep(st, i, window_id), mask, key, window_id)
         ELSE ScanKeybindsNoBreak(i + 1, st, mask, key, window_id)

KeyDispatchNoBreak(st, mask, key, window_id) ==
    ScanKeybindsNoBreak(1, st, mask, key, window_id)

KeyDispatch(st, mask, key, window_id) == ScanKeybinds(1, st, mask, key, window_id)

KeyPress(mask, key, window_id) ==
    /\ Fetching
    /\ LET st == KeyDispatch([desktop |-> desktop, running |-> running, cmds |-> <<>>],
                             mask, key, window_id)
       IN /\ desktop' = st.desktop
          /\ running' = st.running
          /\ cmds' = st.cmds
    /\ UNCHANGED <<mouse_mode, last_mouse_x, last_mouse_y, screen, grabbed, pc>>
    /\ Record(Event("KeyPress", window_id, "none", mask, key, 0, 0))

\* mutant: the two arms of the button match exchanged
ButtonModeSwapped(but) == IF but = "LeftClick" THEN "Resize" ELSE "Move"

\* the mode the button match of the ButtonPress arm enters
ButtonMode(but) == IF but = "LeftClick" THEN "Move" ELSE "Resize"

ButtonPress(but, window_id, px, py) ==
    /\ Fetching
    /\ IF IsEmpty(Current(desktop))
       THEN /\ cmds' = <<>>
            /\ UNCHANGED <<grabbed, last_mouse_x, last_mouse_y, desktop, mouse_mode, pc>>
       ELSE /\ grabbed' = TRUE
            /\ last_mouse_x' = px
            /\ last_mouse_y' = py
            /\ IF Focused(Current(desktop)) = None
               THEN /\ cmds' = <<Cmd("grab_pointer", 0, 0, 0)>>
                    /\ pc' = "panicked"
                    /\ UNCHANGED <<desktop, mouse_mode>>
               ELSE /\ IF window_id # Focused(Current(desktop))[1]
                       THEN /\ desktop' = [desktop EXCEPT
                                              !.ws[desktop.current] = WindowFocus(@, window_id)]
                            /\ cmds' = <<Cmd("grab_pointer", 0, 0, 0),
                                         Cmd("window_focus", window_id, 0, 0)>>
                       ELSE /\ desktop' = desktop
                            /\ cmds' = <<Cmd("grab_pointer", 0, 0, 0)>>
                    /\ mouse_mode' = ButtonMode(but)
                    /\ pc' = pc
    /\ UNCHANGED <<running, screen>>
    /\ Record(Event("ButtonPress", window_id, but, "none", "none", px, py))

\* mutant: the mode is reset but the pointer is not ungrabbed
ButtonReleaseKeepsGrab(but) ==
    /\ Fetching
    /\ cmds' = <<>>
    /\ mouse_mode' = "Ground"
    /\ UNCHANGED <<last_mouse_x, last_mouse_y, running, screen, desktop, grabbed, pc>>
    /\ Record(Event("ButtonRelease", 0, but, "none", "none", 0, 0))

\* mutant: only the button that started the drag ends it
ButtonReleaseMatching(but) ==
    /\ Fetching
    /\ IF mouse_mode = ButtonMode(but)
       THEN /\ grabbed' = FALSE
            /\ cmds' = <<Cmd("ungrab_pointer", 0, 0, 0)>>
            /\ mouse_mode' = "Ground"
       ELSE /\ cmds' = <<>>
            /\ UNCHANGED <<grabbed, mouse_mode>>
    /\ UNCHANGED <<last_mouse_x, last_mouse_y, running, screen, desktop, pc>>
    /\ Record(Event("ButtonRelease", 0, but, "none", "none", 0, 0))

ButtonRelease(but) ==
    /\ Fetching
    /\ grabbed' = FALSE
    /\ cmds' = <<Cmd("ungrab_pointer", 0, 0, 0)>>
    /\ mouse_mode' = "Ground"
    /\ UNCHANGED <<last_mouse_x, last_mouse_y, running, screen, desktop, pc>>
    /\ Record(Event("ButtonRelease", 0, but, "none", "none", 0, 0))

\* the loop condition read with running = false
LoopExit ==
    /\ pc = "run"
    /\ ~running
    /\ pc' = "exited"
    /\ UNCHANGED <<mouse_mode, last_mouse_x, last_mouse_y, running, screen, desktop,
                   grabbed, register_idx, handled, cmds, pre, drag>>

(***************************************************************************)
(* WM::register, the start of WM::run, and WM::kill called by the owner of *)
(* the WM while the loop is not running.                                   *)
(***************************************************************************)
\* mutant: a negative index is clamped to the first root
RootsNthClamped(idx) ==
    IF idx < Len(Roots) THEN Some(Roots[IF idx < 0 THEN 1 ELSE idx + 1])
    ELSE None

\* roots().nth(register_idx as usize): a negative index converts to a usize
\* beyond every length
RootsNth(idx) ==
    IF idx < 0 THEN None
    ELSE IF idx < Len(Roots) THEN Some(Roots[idx + 1])
    ELSE None

\* the geometries the transport may report for the root window
Geometries ==
    {[x |-> 0, y |-> 0, width |-> 800, height |-> 600],
     [x |-> 10, y |-> 20, width |-> 1024, height |-> 768]}

RootGeometry == [x |-> 0, y |-> 0, width |-> 800, height |-> 600]

\* XConn::update_geometry: the reported geometry g stored by Screen::set
UpdateGeometry(s, g) == ScreenSet(s, g.x, g.y, g.width, g.height)

\* the transport requests of a successful registration, in order
RegisterRequests(root_id) ==
    <<Cmd("change_window_attributes", 0, 0, 0)>>
    \o [i \in 1..Len(KEYBINDS) |->
           [op |-> "grab_key", win |-> 0, dx |-> 0, dy |-> 0, entry |-> i]]
    \o <<Cmd("grab_button", 0, 1, 0), Cmd("grab_button", 0, 3, 0),
         Cmd("create_core_cursor", 0, 0, 0), Cmd("set_cursor", 0, 0, 0),
         Cmd("update_geometry", 0, 0, 0)>>

\* mutant: the pointer position is snapshotted at registration
RegisterSnapshotsPointer ==
    /\ pc = "boot"
    /\ IF RootsNth(register_idx) = None
       THEN /\ pc' = "register_failed"
            /\ UNCHANGED <<mouse_mode, last_mouse_x, last_mouse_y, running, screen,
                           desktop, cmds>>
       ELSE /\ screen' = UpdateGeometry(ScreenNew(register_idx, RootsNth(register_idx)[1]),
                                        RootGeometry)
            /\ cmds' = RegisterRequests(RootsNth(register_idx)[1])
            /\ desktop' = DesktopDefault
            /\ mouse_mode' = "Ground"
            /\ last_mouse_x' = 10
            /\ last_mouse_y' = 10
            /\ running' = TRUE
            /\ pc' = "registered"
    /\ UNCHANGED <<grabbed, register_idx, handled, pre, drag>>

Register ==
    /\ pc = "boot"
    /\ IF RootsNth(register_idx) = None
       THEN /\ pc' = "register_failed"
            /\ UNCHANGED <<mouse_mode, last_mouse_x, last_mouse_y, running, screen,
                           desktop, cmds>>
       ELSE /\ screen' = UpdateGeometry(ScreenNew(register_idx, RootsNth(register_idx)[1]),
                                        RootGeometry)
            /\ cmds' = RegisterRequests(RootsNth(register_idx)[1])
            /\ desktop' = DesktopDefault
            /\ mouse_mode' = "Ground"
            /\ last_mouse_x' = 0
            /\ last_mouse_y' = 0
            /\ running' = TRUE
            /\ pc' = "registered"
    /\ UNCHANGED <<grabbed, register_idx, handled, pre, drag>>

\* WM::run is entered
RunStart ==
    /\ pc = "registered"
    /\ pc' = "run"
    /\ UNCHANGED <<mouse_mode, last_mouse_x, last_mouse_y, running, screen, desktop,
                   grabbed, register_idx, handled, cmds, pre, drag>>

\* WM::kill called between WM::register and WM::run
KillOutside ==
    /\ pc = "registered"
    /\ running' = Kill([running |-> running]).running
    /\ UNCHANGED <<mouse_mode, last_mouse_x, last_mouse_y, screen, desktop,
                   grabbed, pc, register_idx, handled, cmds, pre, drag>>

\* the geometry is fetched again, on demand, once the loop has returned
GeometryUpdate(g) ==
    /\ pc = "exited"
    /\ screen' = UpdateGeometry(screen, g)
    /\ UNCHANGED <<mouse_mode, last_mouse_x, last_mouse_y, running, desktop,
                   grabbed, pc, register_idx, handled, cmds, pre, drag>>

Next ==
    \/ Register
    \/ RunStart
    \/ KillOutside
    \/ \E g \in Geometries : GeometryUpdate(g)
    \/ \E w \in Windows : MapRequest(w)
    \/ \E w \in Windows : UnmapNotify(w)
    \/ \E w \in Windows : DestroyNotify(w)
    \/ \E w \in Windows : EnterNotify(w)
    \/ \E p \in Pointers : MotionNotify(p[1], p[2])
    \/ \E m \in KeyMasks, k \in KeySyms, w \in Windows : KeyPress(m, k, w)
    \/ \E b \in MouseButtons, w \in Windows, p \in Pointers :
           ButtonPress(b, w, p[1], p[2])
    \/ \E b \in MouseButtons : ButtonRelease(b)
    \/ LoopExit

Spec == Init /\ [][Next]_vars

(***************************************************************************)
(* Properties.  handled, cmds and pre describe the last loop iteration:    *)
(* the event, the commands it issued and the state it started from.        *)
(***************************************************************************)
PreCurrent == Current(pre.desktop)

PreFound == ContainsMut(pre.desktop, handled.win)

Matches == {i \in DOMAIN KEYBINDS :
                KEYBINDS[i].mask = handled.mask /\ KEYBINDS[i].key = handled.key}

Invoked == SelectSeq(cmds, LAMBDA c : c.op = "keyfn")

Without(s, win) == SelectSeq(s, LAMBDA v : v # win)

\* C1: after any sequence of events the pointer grab is held if and only if
\* mouse_mode is not Ground.
C1_GrabIffNotGround == grabbed <=> (mouse_mode # "Ground")

\* a key press handled in the middle of a drag, the grab still held
C1_Witness ==
    /\ handled.kind = "KeyPress"
    /\ pre.mouse_mode = "Resize"
    /\ grabbed
    /\ mouse_mode = "Resize"

\* C2: handling a ButtonRelease, from any mode and for any button, releases
\* the pointer grab and leaves mouse_mode = Ground.
C2_ReleaseToGround ==
    handled.kind = "ButtonRelease" =>
        /\ mouse_mode = "Ground"
        /\ ~grabbed
        /\ cmds = <<Cmd("ungrab_pointer", 0, 0, 0)>>

\* a drag started with the left button and ended by a right button release
C2_Witness ==
    /\ handled.kind = "ButtonRelease"
    /\ handled.button = "RightClick"
    /\ pre.mouse_mode = "Move"
    /\ pre.grabbed
    /\ ~grabbed

\* C3 as stated: whenever a MotionNotify is handled while mouse_mode = Ground
\* the process aborts.
C3_MotionInGroundAborts ==
    (handled.kind = "MotionNotify" /\ pre.mouse_mode = "Ground") => pc = "panicked"

\* C3 amended: a MotionNotify handled while mouse_mode = Ground aborts the
\* process exactly when the current workspace is non-empty, and then issues
\* no move or resize; with an empty current workspace it is ignored.
C3_MotionInGroundAbortsIfNonEmpty ==
    (handled.kind = "MotionNotify" /\ pre.mouse_mode = "Ground") =>
        /\ cmds = <<>>
        /\ IF IsEmpty(PreCurrent) THEN pc # "panicked" /\ Snapshot = pre
           ELSE pc = "panicked"

C3_Witness ==
    /\ handled.kind = "MotionNotify"
    /\ pre.mouse_mode = "Ground"
    /\ ~IsEmpty(PreCurrent)
    /\ pc = "panicked"

\* C4: the loop aborts only by handling MotionNotify with mouse_mode = Ground;
\* the focused-window lookups of the ButtonPress and MotionNotify arms never
\* fail.
C4_AbortOnlyGroundMotion ==
    pc = "panicked" => (handled.kind = "MotionNotify" /\ pre.mouse_mode = "Ground")

\* the abort reached after an earlier drag was pressed and released
C4_Witness ==
    /\ pc = "panicked"
    /\ pre.last_mouse_x # 0
    /\ ~pre.grabbed
    /\ Len(PreCurrent.windows) = 2

\* C5: ButtonPress(button, win) on a non-empty current workspace leaves, from
\* any prior mode, the grab held, the last pointer equal to the position
\* queried during the press, and mouse_mode = Move for LeftClick, Resize for
\* RightClick.
C5_PressEntersMode ==
    (handled.kind = "ButtonPress" /\ ~IsEmpty(PreCurrent)) =>
        /\ grabbed
        /\ last_mouse_x = handled.px
        /\ last_mouse_y = handled.py
        /\ handled.button = "LeftClick" => mouse_mode = "Move"
        /\ handled.button = "RightClick" => mouse_mode = "Resize"
        /\ cmds[1] = Cmd("grab_pointer", 0, 0, 0)

\* a right press in the middle of a move drag, at another pointer position
C5_Witness ==
    /\ handled.kind = "ButtonPress"
    /\ handled.button = "RightClick"
    /\ pre.mouse_mode = "Move"
    /\ pre.last_mouse_x = 10
    /\ last_mouse_x = 13
    /\ last_mouse_y = 15
    /\ mouse_mode = "Resize"

\* C6: each MotionNotify handled with a non-empty current workspace in Move
\* or Resize applies exactly one delta, the queried position minus the last
\* position, to the focused window of the current workspace, by do_move in
\* Move and do_resize in Resize, and leaves last = the queried position.
C6_MotionAppliesDelta ==
    (handled.kind = "MotionNotify" /\ ~IsEmpty(PreCurrent)
        /\ pre.mouse_mode \in {"Move", "Resize"}) =>
        /\ Len(cmds) = 1
        /\ cmds[1].op = (IF pre.mouse_mode = "Move" THEN "do_move" ELSE "do_resize")
        /\ Some(cmds[1].win) = Focused(PreCurrent)
        /\ cmds[1].dx = handled.px - pre.last_mouse_x
        /\ cmds[1].dy = handled.py - pre.last_mouse_y
        /\ last_mouse_x = handled.px
        /\ last_mouse_y = handled.py
        /\ desktop = pre.desktop
        /\ mouse_mode = pre.mouse_mode

\* the scenario of the specification: (10,10) then (13,15) in Move
C6_Witness ==
    /\ handled.kind = "MotionNotify"
    /\ pre.mouse_mode = "Move"
    /\ pre.last_mouse_x = 10
    /\ pre.last_mouse_y = 10
    /\ cmds = <<Cmd("do_move", Focused(PreCurrent)[1], 3, 5)>>
    /\ last_mouse_x = 13
    /\ last_mouse_y = 15

\* the events the loop ignores
Ignored ==
    \/ handled.kind \in {"UnmapNotify", "DestroyNotify"} /\ PreFound = None
    \/ handled.kind = "MotionNotify" /\ IsEmpty(PreCurrent)
    \/ handled.kind = "ButtonPress" /\ IsEmpty(PreCurrent)
    \/ handled.kind = "KeyPress" /\ Matches = {}

\* C7: an ignored event (unmap or destroy of an untracked window, motion or
\* button press with an empty current workspace, key press matching no
\* keybind) leaves mouse_mode, the last pointer, running, the grab, the
\* Screen and the container unchanged and issues no command.
C7_IgnoredChangesNothing ==
    Ignored => (Snapshot = pre /\ cmds = <<>> /\ pc # "panicked")

\* a button press ignored in the middle of a drag whose workspace was emptied
C7_Witness ==
    /\ handled.kind = "ButtonPress"
    /\ IsEmpty(PreCurrent)
    /\ pre.mouse_mode = "Move"
    /\ pre.grabbed
    /\ handled.px # pre.last_mouse_x

\* C8: MapRequest(win) inserts an untracked win into the current workspace;
\* for a win tracked in the active workspace it issues a focus of win and
\* inserts nothing; for a win tracked in an inactive workspace it does
\* nothing at all.
C8_MapRequest ==
    handled.kind = "MapRequest" =>
        /\ desktop.current = pre.desktop.current
        /\ IF PreFound = None
           THEN /\ cmds = <<Cmd("window_add", handled.win, 0, 0)>>
                /\ \A i \in WorkspaceIds :
                       Without(desktop.ws[i].windows, handled.win) = pre.desktop.ws[i].windows
                /\ \A i \in WorkspaceIds :
                       handled.win \in Range(desktop.ws[i].windows) <=> i = pre.desktop.current
           ELSE IF PreFound[1].ws = pre.desktop.current
           THEN /\ cmds = <<Cmd("window_focus", handled.win, 0, 0)>>
                /\ \A i \in WorkspaceIds :
                       desktop.ws[i].windows = pre.desktop.ws[i].windows
           ELSE /\ cmds = <<>>
                /\ desktop = pre.desktop

\* a map request for a window held by the inactive workspace
C8_Witness ==
    /\ handled.kind = "MapRequest"
    /\ PreFound # None
    /\ PreFound[1].ws # pre.desktop.current
    /\ desktop = pre.desktop

\* C9: UnmapNotify(win) or DestroyNotify(win) for a tracked win removes the
\* (workspace, index) entry of win and no other entry, in whichever
\* workspace holds it; afterwards win is in no workspace.
C9_RemovesExactlyEntry ==
    (handled.kind \in {"UnmapNotify", "DestroyNotify"} /\ PreFound # None) =>
        /\ desktop.current = pre.desktop.current
        /\ \A i \in WorkspaceIds :
               desktop.ws[i].windows =
                   IF i = PreFound[1].ws
                   THEN [k \in 1..(Len(pre.desktop.ws[i].windows) - 1) |->
                            pre.desktop.ws[i].windows[IF k < PreFound[1].idx THEN k ELSE k + 1]]
                   ELSE pre.desktop.ws[i].windows
        /\ \A i \in WorkspaceIds : handled.win \notin Range(desktop.ws[i].windows)
        /\ ContainsMut(desktop, handled.win) = None

\* the first of two windows of the inactive workspace is destroyed
C9_Witness ==
    /\ handled.kind = "DestroyNotify"
    /\ PreFound # None
    /\ PreFound[1].ws # pre.desktop.current
    /\ PreFound[1].idx = 1
    /\ Len(pre.desktop.ws[PreFound[1].ws].windows) = 2
    /\ Len(desktop.ws[PreFound[1].ws].windows) = 1

\* C10: a KeyPress invokes at most one keybind action: that of the first
\* table entry, in declared order, whose (mask, key) equals the event's,
\* once, and no later matching entry.
C10_FirstMatchOnly ==
    handled.kind = "KeyPress" =>
        /\ Len(Invoked) <= 1
        /\ Matches = {} => Len(Invoked) = 0
        /\ Matches # {} =>
               /\ Len(Invoked) = 1
               /\ \A i \in Matches : Invoked[1].entry <= i
               /\ Invoked[1].entry \in Matches
               /\ cmds[Len(cmds)] = Invoked[1]
        /\ (handled.mask = "Mod" /\ handled.key = "q") =>
               (~running /\ desktop.current = pre.desktop.current)

\* the key of entries 1 and 3 pressed: only the action of entry 1 has run
C10_Witness ==
    /\ handled.kind = "KeyPress"
    /\ Cardinality(Matches) = 2
    /\ Invoked = <<KeyfnCmd(1)>>
    /\ ~running
    /\ pre.running

\* C11: once kill() has set running to false, from outside or from a keybind
\* action, the handling of the event in flight completes, the loop exits at
\* its next iteration check without fetching or handling a further event,
\* and running never returns to true.
C11_CooperativeShutdown ==
    /\ [][(pc \in {"registered", "run", "exited"} /\ ~running) => ~running']_vars
    /\ [][(pc = "run" /\ ~running) =>
              (pc' = "exited" /\ handled' = handled /\ cmds' = cmds
                  /\ Snapshot' = Snapshot)]_vars
    /\ [](pc = "exited" => ~running)
    /\ []((handled.kind = "KeyPress" /\ pre.running /\ ~running) =>
              (cmds[Len(cmds)] = KeyfnCmd(1) /\ pc \in {"run", "exited"}))

\* the loop has exited after a key press that refocused and then killed
C11_Witness ==
    /\ pc = "exited"
    /\ handled.kind = "KeyPress"
    /\ cmds = <<Cmd("window_focus", handled.win, 0, 0), KeyfnCmd(1)>>
    /\ ~running

\* C12 as stated: after handling ButtonPress(button, win) with a non-empty
\* current workspace the focused window of the current workspace is win.
C12_PressFocusesWin ==
    (handled.kind = "ButtonPress" /\ ~IsEmpty(PreCurrent)) =>
        Focused(Current(desktop)) = Some(handled.win)

\* C13: WM::register produces mouse_mode = Ground, running = true, last
\* pointer = (0,0) and no pointer grab, and the loop handles no event before
\* registration has completed.
C13_RegisteredState ==
    /\ [][(pc = "boot" /\ pc' = "registered") =>
              (mouse_mode' = "Ground" /\ running' /\ last_mouse_x' = 0
                  /\ last_mouse_y' = 0 /\ ~grabbed' /\ handled' = NoEvent)]_vars
    /\ [][handled' # handled => pc = "run"]_vars
    /\ [](pc = "run" => RootsNth(register_idx) # None)

\* registration has completed and the loop has not started
C13_Witness ==
    /\ pc = "registered"
    /\ running
    /\ mouse_mode = "Ground"
    /\ Len(cmds) = Len(KEYBINDS) + 6

\* C14: registration with a screen index out of range, a negative one
\* included, aborts before any transport request is issued and returns no WM
\* state.
C14_BadIndexAborts ==
    (register_idx < 0 \/ register_idx >= Len(Roots)) =>
        /\ pc \in {"boot", "register_failed"}
        /\ cmds = <<>>
        /\ Snapshot = pre
        /\ ~running
        /\ handled = NoEvent

\* registration has aborted on a negative index
C14_Witness ==
    /\ pc = "register_failed"
    /\ register_idx = -1
    /\ cmds = <<>>

\* C15: a KeyPress matching a keybind entry issues a focus of win before the
\* bound action when win is not the focused window of the current workspace
\* and no focus when it is; a KeyPress matching no entry issues no focus.
C15_KeyPressRefocus ==
    handled.kind = "KeyPress" =>
        IF Matches = {} THEN cmds = <<>>
        ELSE IF IsFocused(PreCurrent, handled.win)
        THEN Len(cmds) = 1 /\ cmds[1].op = "keyfn"
        ELSE /\ Len(cmds) = 2
             /\ cmds[1] = Cmd("window_focus", handled.win, 0, 0)
             /\ cmds[2].op = "keyfn"

\* a matching key press on the window that is already focused
C15_Witness ==
    /\ handled.kind = "KeyPress"
    /\ Matches # {}
    /\ IsFocused(PreCurrent, handled.win)
    /\ Len(PreCurrent.windows) = 2
    /\ Len(cmds) = 1

GeometryOf(s) == [x |-> s.x, y |-> s.y, width |-> s.width, height |-> s.height]

\* C16: the Screen changes only by the geometry update, which overwrites x,
\* y, width and height together and never the root id; no step of the loop
\* changes the Screen, and id() is constant once registered.
C16_ScreenOnlyByGeometryUpdate ==
    /\ [][pc = "run" => screen' = screen]_vars
    /\ [][pc # "boot" => (ScreenId(screen') = ScreenId(screen)
                             /\ screen'.idx = screen.idx)]_vars
    /\ [](pc \in {"registered", "run", "exited", "panicked"} =>
              /\ GeometryOf(screen) \in Geometries
              /\ Some(ScreenId(screen)) = RootsNth(register_idx)
              /\ screen.idx = register_idx)
    /\ [](handled # NoEvent /\ pc # "exited" => screen = pre.screen)

\* the geometry was fetched again after the loop had handled events
C16_Witness ==
    /\ pc = "exited"
    /\ handled.kind = "KeyPress"
    /\ GeometryOf(screen) = [x |-> 10, y |-> 20, width |-> 1024, height |-> 768]
    /\ GeometryOf(pre.screen) = RootGeometry
    /\ ScreenId(screen) = "root"

\* C17: EnterNotify(win) sets the transport's input focus to win, for a
\* tracked or an untracked win, and changes nothing else.
C17_EnterNotifyOnlyInputFocus ==
    handled.kind = "EnterNotify" =>
        /\ cmds = <<Cmd("set_input_focus", handled.win, 0, 0)>>
        /\ Snapshot = pre
        /\ pc = "run"

\* a tracked, unfocused window is entered in the middle of a resize drag
C17_Witness ==
    /\ handled.kind = "EnterNotify"
    /\ handled.win \in Range(PreCurrent.windows)
    /\ ~IsFocused(PreCurrent, handled.win)
    /\ pre.mouse_mode = "Resize"

\* C18: mouse_mode and the grab change only in the ButtonPress arm on a
\* non-empty current workspace and in the ButtonRelease arm: every other
\* handled event leaves both as they were, also when it removes the window
\* being dragged or empties the workspace.
C18_ModeOnlyByButtons ==
    (\/ handled.kind \in {"MapRequest", "UnmapNotify", "DestroyNotify", "EnterNotify",
                          "KeyPress"}
     \/ handled.kind = "MotionNotify" /\ pc # "panicked"
     \/ handled.kind = "ButtonPress" /\ IsEmpty(PreCurrent)) =>
        /\ mouse_mode = pre.mouse_mode
        /\ grabbed = pre.grabbed

\* the only window, being moved, is unmapped: the drag stays open
C18_Witness ==
    /\ handled.kind = "UnmapNotify"
    /\ pre.mouse_mode = "Move"
    /\ IsFocused(PreCurrent, handled.win)
    /\ IsEmpty(Current(desktop))
    /\ mouse_mode = "Move"
    /\ grabbed

\* C19: over one drag, a ButtonPress on a non-empty workspace followed by
\* MotionNotify events with no further ButtonPress, the component-wise sum
\* of the deltas passed to do_move / do_resize equals the last queried
\* pointer position minus the position snapshotted at the ButtonPress.
C19_DeltasTelescope ==
    mouse_mode # "Ground" => (drag.lost_x = 0 /\ drag.lost_y = 0)

\* the second motion in a row of a drag: (13,15) to (10,10), after a motion
\* that had moved the pointer as well
C19_Witness ==
    /\ handled.kind = "MotionNotify"
    /\ mouse_mode = "Resize"
    /\ pre.last_mouse_x = 13
    /\ pre.last_mouse_y = 15
    /\ cmds = <<Cmd("do_resize", Focused(PreCurrent)[1], -3, -5)>>
    /\ last_mouse_x = 10
    /\ last_mouse_y = 10
    /\ drag = NoDrag

RECURSIVE NumTracked(_, _)
NumTracked(win, i) ==
    IF i = 0 THEN 0
    ELSE Len(SelectSeq(desktop.ws[i].windows, LAMBDA v : v = win)) + NumTracked(win, i - 1)

\* C20: after any sequence of MapRequest, UnmapNotify and DestroyNotify
\* events every window identifier is tracked at most once across all
\* workspaces.
C20_TrackedAtMostOnce == \A win \in Windows : NumTracked(win, NumWorkspaces) <= 1

\* a map request for a window already held by the current workspace, the
\* other window being held by the other workspace
C20_Witness ==
    /\ handled.kind = "MapRequest"
    /\ PreFound # None
    /\ PreFound[1].ws = pre.desktop.current
    /\ \A win \in Windows : NumTracked(win, NumWorkspaces) = 1
    /\ \E i \in WorkspaceIds : i # desktop.current /\ ~IsEmpty(desktop.ws[i])

=============================================================================
